---- MODULE Spec2Model ----
(***************************************************************************)
(* Document processing pipeline and search subsystem of facetodockfetch.   *)
(*                                                                         *)
(* The canonical store is the SQLite database of backend/app/database.py   *)
(* (one set of rows per table), the search index is the pair of            *)
(* Elasticsearch indices of services/elasticsearch_service.py, the task    *)
(* queue is the Celery broker.  HTTP handlers (upload, index-directory,    *)
(* delete, reindex, search) and the Celery worker are the processes.       *)
(*                                                                         *)
(* A file's bytes are abstracted to a content name (Hashes); the SHA-256   *)
(* hex digest, the OCR text and the face embedding derived from a file are *)
(* all represented by that content name.                                   *)
(***************************************************************************)
EXTENDS Integers, Sequences, FiniteSets, TLC

\* ---------------------------------------------------------------- bounds
MaxDocId == 3       \* highest Document rowid the model lets SQLite hand out
MaxRuns == 2        \* number of task executions the worker performs
MaxQueue == 2       \* messages the broker holds at once
MaxFacesPerRun == 1 \* faces the detector reports for one document
MaxLines == 4       \* lines of a recognized text handed to the MRZ scan
MaxPages == 2       \* page images convert_from_path yields for a PDF

\* ------------------------------------------------------ program constants
MAX_RETRIES_OCR == 3

Hashes == {"a", "b"}
Uploaders == {"u1", "u2"}
Terminal == {"completed", "requires_review", "failed"}

\* FaceRecognitionService._load_model: InsightFace, the OpenCV Haar cascade
\* when InsightFace cannot be loaded, no detector when neither loads
Engines == {"insightface", "opencv", "none"}

\* _detect_with_opencv line 182: the embedding [0.0] * 512 of every face
Sentinel == "zero"

\* the Face rowids a behaviour of single-image runs can hand out
FaceIds == 1..(MaxRuns * MaxFacesPerRun)

\* the Face rowids a behaviour with multi-page runs can hand out
PageFaceIds == 1..(MaxRuns * MaxPages * MaxFacesPerRun)

VARIABLES
    documents,    \* table documents: rows [id, file_hash, file_type, status, has_mrz]
    ocr_results,  \* table ocr_results: rows [id, document_id, attempt_number]
    mrz_data,     \* table mrz_data: rows [id, document_id]
    faces,        \* table faces: rows [id, document_id, embedding_id]
    failures,     \* table processing_failures: rows [id, document_id, failure_type, attempt_number]
    es_faces,     \* index face_embeddings: entries [face_id, document_id, embedding]
    es_docs,      \* index documents_fulltext: entries [document_id, full_text, mrz]
    queue,        \* Celery broker: sequence of messages
    upl,          \* upload_document request of each uploader
    idx,          \* the index_directory request
    run,          \* the Celery worker executing process_document_task
    nruns,        \* task executions so far
    engine,       \* face engine loaded by the worker and by the web process
    lastSearch,   \* outcome of the last search request
    lastGet,      \* response of the last get_document request
    lastDetect,   \* the last call of detect_faces and what it returned
    lastMrz,      \* the last scan of extract_mrz_zone and what it returned
    upload_dir    \* the files of settings.UPLOAD_DIR: path -> bytes

vars == <<documents, ocr_results, mrz_data, faces, failures, es_faces, es_docs,
          queue, upl, idx, run, nruns, engine, lastSearch, lastGet,
          lastDetect, lastMrz, upload_dir>>

tables == <<documents, ocr_results, mrz_data, faces, failures>>
index == <<es_faces, es_docs>>

\* ---------------------------------------------------------------- helpers
MaxOf(S) == CHOOSE x \in S : \A y \in S : y <= x

\* INTEGER PRIMARY KEY without AUTOINCREMENT on SQLite: rowid = max(rowid)+1
NextId(rows) == IF rows = {} THEN 1 ELSE MaxOf({r.id : r \in rows}) + 1

\* calculate_file_hash: the digest is a function of the bytes alone
calculate_file_hash(content) == content

\* the extension of the uploaded file; content "b" is the PDF of the model
FileTypeOf(content) == IF content = "b" THEN "pdf" ELSE "jpg"

\* db.query(Document).filter(Document.file_hash == h).first()
DocsByHash(h) == {d \in documents : d.file_hash = h}

\* db.query(Document).filter(Document.id == i).first()
DocsById(i) == {d \in documents : d.id = i}

DocExists(i) == DocsById(i) # {}

TheDoc(i) == CHOOSE d \in documents : d.id = i

StatusOf(i) == (TheDoc(i)).status

\* document.<column> = value; db.commit()
SetDoc(i, col, val) ==
    {IF d.id = i THEN [d EXCEPT ![col] = val] ELSE d : d \in documents}

\* routes/documents.py lines 59-62: the paths timestamp_filename under
\* UPLOAD_DIR that requests save to; two requests share a path when their
\* sanitized filenames agree and they arrive within one second
Paths == {"p1", "p2"}

\* no file at the path
NoFile == "none"

\* the path of a file that index_directory found in the scanned directory
DirPath == "dir"

\* the path of a request that shares its path with no other request
OwnPath(u) == IF u = "u1" THEN "p1" ELSE "p2"

IdleUpload == [pc |-> "idle", hash |-> "none", path |-> "none", doc |-> 0,
               dup |-> FALSE, mode |-> "none"]

IdleIdx == [pc |-> "idle", files |-> <<>>, first |-> 0, count |-> 0]

IdleRun == [pc |-> "idle", doc |-> 0, content |-> "none", attempt |-> 0,
            success |-> FALSE, zone |-> FALSE, mrz |-> FALSE, todo |-> <<>>,
            made |-> {},
            exc |-> "none", term |-> "none", fails |-> 0, ixfail |-> 0]

DocMsg(i) == [kind |-> "doc", ids |-> <<i>>]

BatchMsg(ids) == [kind |-> "batch", ids |-> ids]

\* no search was served by the last step; logged counts the SearchLog rows
\* the request appended through log_search
NoSearch == [kind |-> "none", q |-> "none", search_in |-> "none",
             query_embedding |-> "none", index_ok |-> FALSE, hits |-> <<>>,
             results |-> <<>>, error |-> "none", status_code |-> 0,
             logged |-> 0]

\* no get_document was served by the last step
NoGet == [status_code |-> 0, id |-> 0, status |-> "none", processing_failures |-> <<>>]

\* detect_faces was not called on its own by the last step
NoDetect == [eng |-> "none", min_confidence |-> 0, faces |-> <<>>]

\* extract_mrz_zone returned None, or was not called on its own by the last step
NoZone == [document_type |-> "none", start |-> 0, checksum_valid |-> FALSE]

NoMrz == [lines |-> <<>>, valid |-> {}, called |-> FALSE, result |-> NoZone]

\* the step serves no read request
Quiet ==
    /\ lastSearch' = NoSearch
    /\ lastGet' = NoGet
    /\ lastDetect' = NoDetect
    /\ lastMrz' = NoMrz

Init ==
    /\ documents = {}
    /\ ocr_results = {}
    /\ mrz_data = {}
    /\ faces = {}
    /\ failures = {}
    /\ es_faces = {}
    /\ es_docs = {}
    /\ queue = <<>>
    /\ upl = [u \in Uploaders |-> IdleUpload]
    /\ idx = IdleIdx
    /\ run = IdleRun
    /\ nruns = 0
    /\ engine = [worker |-> "insightface", web |-> "insightface"]
    /\ lastSearch = NoSearch
    /\ lastGet = NoGet
    /\ lastDetect = NoDetect
    /\ lastMrz = NoMrz
    /\ upload_dir = [p \in Paths |-> NoFile]

\* the state after construction when either process may have come up on
\* the fallback detector
InitEngines ==
    /\ documents = {}
    /\ ocr_results = {}
    /\ mrz_data = {}
    /\ faces = {}
    /\ failures = {}
    /\ es_faces = {}
    /\ es_docs = {}
    /\ queue = <<>>
    /\ upl = [u \in Uploaders |-> IdleUpload]
    /\ idx = IdleIdx
    /\ run = IdleRun
    /\ nruns = 0
    /\ engine \in [{"worker", "web"} -> Engines]
    /\ lastSearch = NoSearch
    /\ lastGet = NoGet
    /\ lastDetect = NoDetect
    /\ lastMrz = NoMrz
    /\ upload_dir = [p \in Paths |-> NoFile]

\* ------------------------------------------------------- upload_document
NewDocument(i, h, file_path) ==
    [id |-> i, file_hash |-> h, file_path |-> file_path, file_type |-> FileTypeOf(h),
     status |-> "pending", has_mrz |-> FALSE]

\* UploadCheck without the duplicate lookup of lines 70-91
UploadCheckNoLookup(u, content, file_path) ==
    /\ Quiet
    /\ upl[u].pc = "idle"
    /\ upload_dir' = [upload_dir EXCEPT ![file_path] = content]
    /\ upl' = [upl EXCEPT ![u] =
             [pc |-> "insert", hash |-> calculate_file_hash(content),
              path |-> file_path, doc |-> 0, dup |-> FALSE, mode |-> "none"]]
    /\ UNCHANGED <<engine, tables, index, queue, idx, run, nruns>>

\* lines 39-91: validate, save, hash, look for a Document with that hash
UploadCheck(u, content, file_path) ==
    /\ Quiet
    /\ upl[u].pc = "idle"
    /\ LET h == calculate_file_hash(content)
           existing == DocsByHash(h)
       IN  IF existing # {}
           THEN \* lines 64-65 write the file, line 74 unlinks it again
                /\ upload_dir' = [upload_dir EXCEPT ![file_path] = NoFile]
                /\ upl' = [upl EXCEPT ![u] =
                      [pc |-> "done", hash |-> h, path |-> file_path,
                       doc |-> (CHOOSE d \in existing : TRUE).id,
                       dup |-> TRUE, mode |-> "none"]]
           ELSE /\ upload_dir' = [upload_dir EXCEPT ![file_path] = content]
                /\ upl' = [upl EXCEPT ![u] =
                      [pc |-> "insert", hash |-> h, path |-> file_path, doc |-> 0,
                       dup |-> FALSE, mode |-> "none"]]
    /\ UNCHANGED <<engine, tables, index, queue, idx, run, nruns>>

\* lines 118-125: process_document_sync is not defined in
\* tasks/document_processing.py, the import raises, the handler marks the
\* Document failed
SyncFallback(docs, i) ==
    {IF d.id = i THEN [d EXCEPT !.status = "failed"] ELSE d : d \in docs}

\* lines 93-142: insert the Document, commit, dispatch
UploadInsert(u) ==
    /\ Quiet
    /\ upl[u].pc = "insert"
    /\ LET h == upl[u].hash
           i == NextId(documents)
       IN  IF DocsByHash(h) # {}
           THEN \* UNIQUE constraint on documents.file_hash: IntegrityError
                /\ upl' = [upl EXCEPT ![u].pc = "integrity_error"]
                /\ UNCHANGED <<documents, queue>>
           ELSE /\ i <= MaxDocId
                /\ \E brokerUp \in BOOLEAN :
                     IF brokerUp
                     THEN /\ Len(queue) < MaxQueue
                          /\ documents' = documents \cup {NewDocument(i, h, upl[u].path)}
                          /\ queue' = Append(queue, DocMsg(i))
                          /\ upl' = [upl EXCEPT ![u].pc = "done", ![u].doc = i,
                                                ![u].mode = "async"]
                     ELSE /\ documents' = SyncFallback(documents \cup {NewDocument(i, h, upl[u].path)}, i)
                          /\ queue' = queue
                          /\ upl' = [upl EXCEPT ![u].pc = "done", ![u].doc = i,
                                                ![u].mode = "sync"]
    /\ UNCHANGED <<engine, upload_dir, ocr_results, mrz_data, faces, failures, index, idx, run,
                   nruns>>

\* ------------------------------------------------------ index_directory
\* position of the first file of the listing at or after k whose hash is
\* not in docs (0 when there is none)
RECURSIVE FirstNew(_, _, _)
FirstNew(docs, files, k) ==
    IF k > Len(files) THEN 0
    ELSE IF {d \in docs : d.file_hash = calculate_file_hash(files[k])} = {}
         THEN k
         ELSE FirstNew(docs, files, k + 1)

\* lines 329-351 from file k on: skip a file whose hash is present, else
\* add a pending Document and flush; yields the rows and the new ids
RECURSIVE ScanFiles(_, _, _, _)
ScanFiles(docs, files, k, ids) ==
    IF k > Len(files) THEN [docs |-> docs, ids |-> ids]
    ELSE LET h == calculate_file_hash(files[k])
         IN  IF {d \in docs : d.file_hash = h} # {}
             THEN ScanFiles(docs, files, k + 1, ids)
             ELSE ScanFiles(docs \cup {NewDocument(NextId(docs), h, DirPath)}, files, k + 1,
                            Append(ids, NextId(docs)))

Listings == {<<a>> : a \in Hashes} \cup {<<a, b>> : a \in Hashes, b \in Hashes}

\* lines 307-336: list the directory, hash the files, reach the first file
\* that has no Document yet
IdxScan(files) ==
    /\ Quiet
    /\ idx.pc = "idle"
    /\ LET k == FirstNew(documents, files, 1)
       IN  IF k = 0
           THEN \* nothing to add: commit, queue the empty batch
                \E brokerUp \in BOOLEAN :
                  IF brokerUp
                  THEN /\ Len(queue) < MaxQueue
                       /\ queue' = Append(queue, BatchMsg(<<>>))
                       /\ idx' = [pc |-> "done", files |-> files, first |-> 0, count |-> 0]
                  ELSE /\ queue' = queue
                       /\ idx' = [pc |-> "dispatch_error", files |-> files, first |-> 0, count |-> 0]
           ELSE /\ idx' = [pc |-> "flush", files |-> files, first |-> k, count |-> 0]
                /\ queue' = queue
    /\ UNCHANGED <<engine, upload_dir, tables, index, upl, run, nruns>>

\* lines 338-369: flush the first new Document (the INSERT takes the SQLite
\* write lock), go through the remaining files, commit, queue the batch
IdxFlush ==
    /\ Quiet
    /\ idx.pc = "flush"
    /\ IF DocsByHash(calculate_file_hash(idx.files[idx.first])) # {}
       THEN \* UNIQUE constraint on documents.file_hash: IntegrityError
            /\ idx' = [idx EXCEPT !.pc = "integrity_error"]
            /\ UNCHANGED <<documents, queue>>
       ELSE LET r == ScanFiles(documents, idx.files, idx.first, <<>>)
            IN  /\ \A d \in r.docs : d.id <= MaxDocId
                /\ documents' = r.docs
                /\ \E brokerUp \in BOOLEAN :
                     IF brokerUp
                     THEN /\ Len(queue) < MaxQueue
                          /\ queue' = Append(queue, BatchMsg(r.ids))
                          /\ idx' = [idx EXCEPT !.pc = "done", !.count = Len(r.ids)]
                     ELSE /\ queue' = queue
                          /\ idx' = [idx EXCEPT !.pc = "dispatch_error", !.count = Len(r.ids)]
    /\ UNCHANGED <<engine, upload_dir, ocr_results, mrz_data, faces, failures, index, upl, run,
                   nruns>>

\* ------------------------------------------------------ reindex_database
RECURSIVE SortedIds(_)
SortedIds(S) ==
    IF S = {} THEN <<>>
    ELSE LET m == CHOOSE x \in S : \A y \in S : x <= y
         IN  <<m>> \o SortedIds(S \ {m})

ReindexTypes == {"all", "failed_only"}

\* routes/admin.py: select the Documents, queue them as one batch
Reindex(reindex_type) ==
    /\ Quiet
    /\ Len(queue) < MaxQueue
    /\ LET sel == IF reindex_type = "failed_only"
                  THEN {d \in documents : d.status = "failed"}
                  ELSE documents
       IN  queue' = Append(queue, BatchMsg(SortedIds({d.id : d \in sel})))
    /\ UNCHANGED <<engine, upload_dir, tables, index, upl, idx, run, nruns>>

\* celery_app.py lines 14-25: task_acks_late is not set, so the worker
\* acknowledged the message when it took it (RunStart); a worker process
\* that dies during the task, or is killed at task_time_limit, restarts
\* with nothing to redeliver
WorkerCrash ==
    /\ Quiet
    /\ run.pc \notin {"idle", "done"}
    /\ run' = IdleRun
    /\ UNCHANGED <<engine, upload_dir, tables, index, queue, upl, idx, nruns>>

\* ---------------------------------------------------------- get_document
\* routes/documents.py lines 184-245: 404 when no row has the id, else the
\* row's columns with the literal empty list of line 244
GetDocument(i) ==
    /\ lastGet' = IF ~DocExists(i)
                  THEN [status_code |-> 404, id |-> i, status |-> "none",
                        processing_failures |-> <<>>]
                  ELSE [status_code |-> 200, id |-> i, status |-> StatusOf(i),
                        processing_failures |-> <<>>]
    /\ lastSearch' = NoSearch
    /\ lastDetect' = NoDetect
    /\ lastMrz' = NoMrz
    /\ UNCHANGED <<engine, upload_dir, tables, index, queue, upl, idx, run, nruns>>

\* ------------------------------------------------------- delete_document
\* lines 259-295.  delete_face_embedding and delete_document_text return
\* False when the client is missing or the call raises; the handler ignores
\* the result.  faceOk is the set of face ids whose index delete succeeded.
DeleteDocument(i, faceOk, textOk) ==
    /\ Quiet
    /\ DocExists(i)
    /\ LET fs == {f \in faces : f.document_id = i}
       IN  /\ faceOk \subseteq {f.id : f \in fs}
           /\ es_faces' = {e \in es_faces : e.face_id \notin faceOk}
           /\ es_docs' = IF textOk THEN {e \in es_docs : e.document_id # i}
                         ELSE es_docs
           \* db.delete(document): ORM cascade "all, delete-orphan"
           /\ documents' = {d \in documents : d.id # i}
           /\ ocr_results' = {r \in ocr_results : r.document_id # i}
           /\ mrz_data' = {r \in mrz_data : r.document_id # i}
           /\ faces' = faces \ fs
           /\ failures' = {r \in failures : r.document_id # i}
           \* lines 278-281: unlink the stored file
           /\ upload_dir' = IF (TheDoc(i)).file_path \in Paths
                            THEN [upload_dir EXCEPT ![(TheDoc(i)).file_path] = NoFile]
                            ELSE upload_dir
    /\ UNCHANGED <<engine, queue, upl, idx, run, nruns>>

\* ------------------------------------------- batch_process_documents
\* tasks/document_processing.py lines 207-216: one message per id
RunBatch ==
    /\ Quiet
    /\ run.pc \in {"idle", "done"}
    /\ queue # <<>>
    /\ Head(queue).kind = "batch"
    /\ Len(queue) - 1 + Len(Head(queue).ids) <= MaxQueue
    /\ queue' = Tail(queue) \o [k \in 1..Len(Head(queue).ids) |-> DocMsg(Head(queue).ids[k])]
    /\ UNCHANGED <<engine, upload_dir, tables, index, upl, idx, run, nruns>>

\* ------------------------------------------------ process_document_task
\* the file at document.file_path, read at line 39, still holds the bytes
\* the run started on
FileThere(r) ==
    \E d \in documents :
        /\ d.id = r.doc
        /\ d.file_hash = r.content
        /\ d.file_path \in Paths => upload_dir[d.file_path] = r.content

Raise(r, kind) == [r EXCEPT !.pc = "except", !.exc = kind]

\* lines 23-39: load the Document, mark it processing
RunStart(commitOk) ==
    /\ Quiet
    /\ run.pc \in {"idle", "done"}
    /\ nruns < MaxRuns
    /\ queue # <<>>
    /\ Head(queue).kind = "doc"
    /\ queue' = Tail(queue)
    /\ nruns' = nruns + 1
    /\ LET i == Head(queue).ids[1]
           r == [IdleRun EXCEPT !.doc = i]
       IN  IF ~DocExists(i)
           THEN /\ run' = [r EXCEPT !.pc = "done"]
                /\ documents' = documents
           ELSE IF commitOk
           THEN /\ documents' = SetDoc(i, "status", "processing")
                /\ run' = [r EXCEPT !.pc = "ocr", !.attempt = 1,
                                    !.content = (TheDoc(i)).file_hash]
           ELSE /\ documents' = documents
                /\ run' = Raise([r EXCEPT !.content = (TheDoc(i)).file_hash], "db")
    /\ UNCHANGED <<engine, upload_dir, ocr_results, mrz_data, faces, failures, index, upl, idx>>

\* RunOcr without the break of line 85
RunOcrNoBreak(ok, commitOk) ==
    /\ Quiet
    /\ run.pc = "ocr"
    /\ IF ~DocExists(run.doc)
       THEN /\ run' = Raise(run, "other")
            /\ UNCHANGED <<ocr_results, failures>>
       ELSE IF ~commitOk
       THEN /\ run' = Raise(run, "db")
            /\ UNCHANGED <<ocr_results, failures>>
       ELSE IF ok /\ FileThere(run)
       THEN /\ ocr_results' = ocr_results \cup
                  {[id |-> NextId(ocr_results), document_id |-> run.doc,
                    attempt_number |-> run.attempt]}
            /\ run' = [run EXCEPT !.success = TRUE,
                                  !.attempt = IF @ < MAX_RETRIES_OCR THEN @ + 1 ELSE @,
                                  !.pc = IF run.attempt < MAX_RETRIES_OCR
                                         THEN "ocr" ELSE "mrz"]
            /\ UNCHANGED failures
       ELSE /\ failures' = failures \cup
                  {[id |-> NextId(failures), document_id |-> run.doc,
                    failure_type |-> "ocr_failed", attempt_number |-> run.attempt]}
            /\ run' = [run EXCEPT !.fails = @ + 1,
                                  !.attempt = IF @ < MAX_RETRIES_OCR THEN @ + 1 ELSE @,
                                  !.pc = IF run.attempt < MAX_RETRIES_OCR
                                         THEN "ocr" ELSE "after"]
            /\ UNCHANGED ocr_results
    /\ UNCHANGED <<engine, upload_dir, documents, mrz_data, faces, index, queue, upl, idx, nruns>>

\* lines 45-65 and 86-96: one extraction attempt and the commit of its row
RunOcr(ok, commitOk) ==
    /\ Quiet
    /\ run.pc = "ocr"
    /\ IF ~DocExists(run.doc)
       THEN \* document.file_type on a deleted row: ObjectDeletedError
            /\ run' = Raise(run, "other")
            /\ UNCHANGED <<ocr_results, failures>>
       ELSE IF ~commitOk
       THEN /\ run' = Raise(run, "db")
            /\ UNCHANGED <<ocr_results, failures>>
       ELSE IF ok /\ FileThere(run)
       THEN /\ ocr_results' = ocr_results \cup
                  {[id |-> NextId(ocr_results), document_id |-> run.doc,
                    attempt_number |-> run.attempt]}
            /\ run' = [run EXCEPT !.success = TRUE, !.pc = "mrz"]
            /\ UNCHANGED failures
       ELSE /\ failures' = failures \cup
                  {[id |-> NextId(failures), document_id |-> run.doc,
                    failure_type |-> "ocr_failed", attempt_number |-> run.attempt]}
            /\ run' = [run EXCEPT !.fails = @ + 1,
                                  !.attempt = IF @ < MAX_RETRIES_OCR THEN @ + 1 ELSE @,
                                  !.pc = IF run.attempt < MAX_RETRIES_OCR
                                         THEN "ocr" ELSE "after"]
            /\ UNCHANGED ocr_results
    /\ UNCHANGED <<engine, upload_dir, documents, mrz_data, faces, index, queue, upl, idx, nruns>>

\* ElasticsearchService.index_document_text: upsert keyed by the document id
index_document_text(entries, i, text, mrz) ==
    {e \in entries : e.document_id # i}
        \cup {[document_id |-> i, full_text |-> text, mrz |-> mrz]}

\* OCRService.extract_mrz_zone called with the Document's file path: it runs
\* extract_text_from_image on that path once more and scans the text of that
\* call; zone says whether the text of the successful attempt holds a
\* checksum-valid window, again whether the further call succeeds and reads
\* the same text.  Image.open raises on a PDF path, so the further call fails
\* for every PDF Document.
extract_mrz_zone_found(zone, again, r) ==
    /\ zone
    /\ again
    /\ FileTypeOf(r.content) # "pdf"
    /\ FileThere(r)

\* RunMrzIndex in which a failed text-index write raises into the run
RunMrzIndexRaises(zone, again, esOk) ==
    /\ Quiet
    /\ run.pc = "mrz"
    /\ LET mrz == extract_mrz_zone_found(zone, again, run)
       IN  IF mrz /\ ~DocExists(run.doc)
           THEN /\ run' = Raise(run, "db")
                /\ UNCHANGED <<documents, mrz_data, es_docs>>
           ELSE /\ mrz_data' = IF mrz
                               THEN mrz_data \cup {[id |-> NextId(mrz_data),
                                                    document_id |-> run.doc]}
                               ELSE mrz_data
                /\ documents' = IF mrz THEN SetDoc(run.doc, "has_mrz", TRUE)
                                ELSE documents
                /\ es_docs' = IF esOk
                              THEN index_document_text(es_docs, run.doc, run.content, mrz)
                              ELSE es_docs
                /\ run' = IF esOk
                          THEN [run EXCEPT !.zone = zone, !.mrz = mrz, !.pc = "detect"]
                          ELSE Raise([run EXCEPT !.zone = zone, !.mrz = mrz,
                                                 !.ixfail = @ + 1], "other")
    /\ UNCHANGED <<engine, upload_dir, ocr_results, faces, failures, es_faces, queue, upl, idx,
                   nruns>>

\* lines 67-85: structured fields of the successful attempt, text index
RunMrzIndex(zone, again, esOk) ==
    /\ Quiet
    /\ run.pc = "mrz"
    /\ LET mrz == extract_mrz_zone_found(zone, again, run)
       IN  IF mrz /\ ~DocExists(run.doc)
           THEN \* UPDATE documents matches no row: StaleDataError
                /\ run' = Raise(run, "db")
                /\ UNCHANGED <<documents, mrz_data, es_docs>>
           ELSE /\ mrz_data' = IF mrz
                               THEN mrz_data \cup {[id |-> NextId(mrz_data),
                                                    document_id |-> run.doc]}
                               ELSE mrz_data
                /\ documents' = IF mrz THEN SetDoc(run.doc, "has_mrz", TRUE)
                                ELSE documents
                /\ es_docs' = IF esOk
                              THEN index_document_text(es_docs, run.doc, run.content, mrz)
                              ELSE es_docs
                /\ run' = [run EXCEPT !.zone = zone, !.mrz = mrz, !.pc = "detect",
                                      !.ixfail = IF esOk THEN @ ELSE @ + 1]
    /\ UNCHANGED <<engine, upload_dir, ocr_results, faces, failures, es_faces, queue, upl, idx,
                   nruns>>

\* lines 98-103: every attempt failed
RunAfterLoop(commitOk) ==
    /\ Quiet
    /\ run.pc = "after"
    /\ IF commitOk /\ DocExists(run.doc)
       THEN /\ documents' = SetDoc(run.doc, "status", "requires_review")
            /\ run' = [run EXCEPT !.pc = "detect", !.term = "requires_review"]
       ELSE /\ documents' = documents
            /\ run' = Raise(run, "db")
    /\ UNCHANGED <<engine, upload_dir, ocr_results, mrz_data, faces, failures, index, queue, upl,
                   idx, nruns>>

\* lines 118-125: all_faces for images holding counts[k] faces each;
\* face_index counts the faces of one image from 0
RECURSIVE AllFaces(_, _)
AllFaces(counts, k) ==
    IF k > Len(counts) THEN <<>>
    ELSE [j \in 1..counts[k] |-> [image |-> k, face_index |-> j - 1]]
             \o AllFaces(counts, k + 1)

\* the faces detect_faces reports on each page image of a document
PageFaces == UNION {[1..k -> 0..MaxFacesPerRun] : k \in 1..MaxPages}

\* line 134: the path of the crop of a detected face
face_crop_path(document_id, face_data) == <<document_id, face_data.face_index>>

\* lines 105-125: page images, face detection
RunDetect(counts, convertOk) ==
    /\ Quiet
    /\ run.pc = "detect"
    /\ Len(counts) = 1 \/ FileTypeOf(run.content) = "pdf"
    /\ IF ~DocExists(run.doc)
       THEN run' = Raise(run, "other")
       ELSE IF (TheDoc(run.doc)).file_type = "pdf" /\ ~(convertOk /\ FileThere(run))
       THEN \* convert_from_path raises
            run' = Raise(run, "other")
       ELSE LET found == IF FileThere(run) /\ engine.worker # "none"
                         THEN AllFaces(counts, 1) ELSE <<>>
            IN  run' = [run EXCEPT !.todo = found,
                                   !.pc = IF found # <<>> THEN "face" ELSE "final"]
    /\ UNCHANGED <<engine, upload_dir, tables, index, queue, upl, idx, nruns>>

\* the embedding detect_faces reports for a face of the image: the vector
\* InsightFace computes from the pixels, the zero vector under OpenCV
DetectedEmbedding(eng, content) ==
    IF eng = "opencv" THEN Sentinel ELSE content

\* ElasticsearchService.index_face_embedding: upsert keyed by the face id
index_face_embedding(entries, face_id, document_id, embedding) ==
    {e \in entries : e.face_id # face_id}
        \cup {[face_id |-> face_id, document_id |-> document_id,
               embedding |-> embedding]}

\* lines 127-163: one detected face: row, flush, index write, commit
RunFace(esOk, commitOk) ==
    /\ Quiet
    /\ run.pc = "face"
    /\ LET fid == NextId(faces)
       IN  /\ es_faces' = IF esOk
                          THEN index_face_embedding(es_faces, fid, run.doc,
                                   DetectedEmbedding(engine.worker, run.content))
                          ELSE es_faces
           /\ IF commitOk
              THEN /\ faces' = faces \cup
                         {[id |-> fid, document_id |-> run.doc,
                           face_image_path |-> face_crop_path(run.doc, Head(run.todo)),
                           embedding_id |-> fid]}
                   /\ run' = [run EXCEPT !.todo = Tail(@), !.made = @ \cup {fid},
                                         !.ixfail = IF esOk THEN @ ELSE @ + 1,
                                         !.pc = IF Len(run.todo) > 1 THEN "face"
                                                ELSE "final"]
              ELSE /\ faces' = faces
                   /\ run' = Raise([run EXCEPT !.ixfail = IF esOk THEN @ ELSE @ + 1],
                                   "db")
    /\ UNCHANGED <<engine, upload_dir, documents, ocr_results, mrz_data, failures, es_docs, queue,
                   upl, idx, nruns>>

\* RunFinal without the test of line 171
RunFinalAlwaysCompleted(commitOk) ==
    /\ Quiet
    /\ run.pc = "final"
    /\ IF commitOk /\ DocExists(run.doc)
       THEN /\ documents' = SetDoc(run.doc, "status", "completed")
            /\ run' = [run EXCEPT !.pc = "done", !.term = "completed"]
       ELSE /\ documents' = documents
            /\ run' = Raise(run, "db")
    /\ UNCHANGED <<engine, upload_dir, ocr_results, mrz_data, faces, failures, index, queue, upl,
                   idx, nruns>>

\* lines 170-179: the final status
RunFinal(commitOk) ==
    /\ Quiet
    /\ run.pc = "final"
    /\ IF commitOk /\ DocExists(run.doc)
       THEN LET st == IF run.success THEN "completed" ELSE "requires_review"
            IN  /\ documents' = SetDoc(run.doc, "status", st)
                /\ run' = [run EXCEPT !.pc = "done", !.term = st]
       ELSE /\ documents' = documents
            /\ run' = Raise(run, "db")
    /\ UNCHANGED <<engine, upload_dir, ocr_results, mrz_data, faces, failures, index, queue, upl,
                   idx, nruns>>

\* lines 181-204: the exception handler; its own commit may fail, and
\* then nothing of it is persisted
RunHandler(handlerOk) ==
    /\ Quiet
    /\ run.pc = "except"
    /\ IF handlerOk
       THEN /\ failures' = failures \cup
                  {[id |-> NextId(failures), document_id |-> run.doc,
                    failure_type |-> "processing_error", attempt_number |-> 1]}
            /\ documents' = SetDoc(run.doc, "status", "failed")
            /\ run' = [run EXCEPT !.pc = "done",
                                  !.term = IF DocExists(run.doc) THEN "failed" ELSE @]
       ELSE /\ UNCHANGED <<failures, documents>>
            /\ run' = [run EXCEPT !.pc = "done"]
    /\ UNCHANGED <<engine, upload_dir, ocr_results, mrz_data, faces, index, queue, upl, idx,
                   nruns>>

\* --------------------------------------------------------- detect_faces
\* detection confidences, in tenths
Confidences == 0..10

\* _detect_with_opencv line 199: "confidence": 0.8, in tenths
OPENCV_CONFIDENCE == 8

\* the images given to detect_faces: the detection scores of the faces an
\* image shows, in the order the detector reports them
Images == UNION {[1..n -> Confidences] : n \in 0..MaxFacesPerRun}

\* _detect_with_insightface lines 126-155: the faces below min_confidence
\* are left out, face_index is the position in the detector's list
detect_with_insightface(scores, min_confidence) ==
    LET keep == SortedIds({k \in 1..Len(scores) : scores[k] >= min_confidence})
    IN  [j \in 1..Len(keep) |->
            [face_index |-> keep[j] - 1, confidence |-> scores[keep[j]]]]

\* _detect_with_opencv lines 178-204: every box of the cascade, with the
\* fixed confidence; min_confidence is not read
detect_with_opencv(scores, min_confidence) ==
    [k \in 1..Len(scores) |->
        [face_index |-> k - 1, confidence |-> OPENCV_CONFIDENCE]]

\* FaceRecognitionService.detect_faces lines 99-108
detect_faces(eng, scores, min_confidence) ==
    IF eng = "insightface" THEN detect_with_insightface(scores, min_confidence)
    ELSE IF eng = "opencv" THEN detect_with_opencv(scores, min_confidence)
    ELSE <<>>

\* a call of detect_faces in the worker
DetectFaces(scores, min_confidence) ==
    /\ lastDetect' = [eng |-> engine.worker, min_confidence |-> min_confidence,
                      faces |-> detect_faces(engine.worker, scores, min_confidence)]
    /\ lastMrz' = NoMrz
    /\ lastSearch' = NoSearch
    /\ lastGet' = NoGet
    /\ UNCHANGED <<engine, upload_dir, tables, index, queue, upl, idx, run, nruns>>

\* ------------------------------------------------------- MRZ zone scan
\* the stripped width of a line of recognized text: 44, 30, 36, or 0 for
\* any other width
Widths == {44, 30, 36, 0}

\* the texts: str.split yields at least one line
Texts == UNION {[1..n -> Widths] : n \in 1..MaxLines}

\* lines 378-382, 392-397, 407-411: the width signature of each format
TD3At(lines, i) == i + 1 <= Len(lines) /\ lines[i] = 44 /\ lines[i + 1] = 44

TD1At(lines, i) ==
    i + 2 <= Len(lines) /\ lines[i] = 30 /\ lines[i + 1] = 30 /\ lines[i + 2] = 30

TD2At(lines, i) == i + 1 <= Len(lines) /\ lines[i] = 36 /\ lines[i + 1] = 36

\* _parse_td3, _parse_td1, _parse_td2: the fields of a window; start stands
\* for the raw_mrz_line fields, checksum_valid is the checker's verdict
parse_td(document_type, i, valid) ==
    [document_type |-> document_type, start |-> i, checksum_valid |-> i \in valid]

\* ScanWindow accepting a 36-wide window without asking its checker
ScanWindowTD2Unchecked(lines, valid, i) ==
    IF TD3At(lines, i) /\ i \in valid THEN parse_td("TD3", i, valid)
    ELSE IF TD1At(lines, i) /\ i \in valid THEN parse_td("TD1", i, valid)
    ELSE IF TD2At(lines, i) THEN parse_td("TD2", i, valid)
    ELSE NoZone

\* lines 377-418: one pass of the loop body at line i; valid holds the
\* starting lines whose window the checker of the matching format validates
\* (a checker that raises counts as not valid)
ScanWindow(lines, valid, i) ==
    IF TD3At(lines, i) /\ i \in valid THEN parse_td("TD3", i, valid)
    ELSE IF TD1At(lines, i) /\ i \in valid THEN parse_td("TD1", i, valid)
    ELSE IF TD2At(lines, i) /\ i \in valid THEN parse_td("TD2", i, valid)
    ELSE NoZone

\* lines 376-420: the loop over the starting lines, first return wins
RECURSIVE ScanFrom(_, _, _)
ScanFrom(lines, valid, i) ==
    IF i > Len(lines) THEN NoZone
    ELSE IF ScanWindow(lines, valid, i) # NoZone THEN ScanWindow(lines, valid, i)
    ELSE ScanFrom(lines, valid, i + 1)

\* OCRService.extract_mrz_zone on a text that was recognized
extract_mrz_zone(lines, valid) == ScanFrom(lines, valid, 1)

\* the state after construction with a recognized text and the checkers'
\* verdicts on its windows at hand
InitMrz ==
    /\ documents = {}
    /\ ocr_results = {}
    /\ mrz_data = {}
    /\ faces = {}
    /\ failures = {}
    /\ es_faces = {}
    /\ es_docs = {}
    /\ queue = <<>>
    /\ upl = [u \in Uploaders |-> IdleUpload]
    /\ idx = IdleIdx
    /\ run = IdleRun
    /\ nruns = 0
    /\ engine = [worker |-> "insightface", web |-> "insightface"]
    /\ lastSearch = NoSearch
    /\ lastGet = NoGet
    /\ lastDetect = NoDetect
    /\ lastMrz \in [lines : Texts, valid : SUBSET (1..MaxLines), called : {FALSE},
                     result : {NoZone}]
    /\ upload_dir = [p \in Paths |-> NoFile]

\* a call of extract_mrz_zone whose extraction call returned the text at hand
ExtractMrzZone ==
    /\ lastMrz.lines # <<>>
    /\ ~lastMrz.called
    /\ lastMrz' = [lastMrz EXCEPT
                     !.called = TRUE,
                     !.result = extract_mrz_zone(lastMrz.lines, lastMrz.valid)]
    /\ lastSearch' = NoSearch
    /\ lastGet' = NoGet
    /\ lastDetect' = NoDetect
    /\ UNCHANGED <<engine, upload_dir, tables, index, queue, upl, idx, run, nruns>>

\* --------------------------------------------------------------- search
\* the query images: one showing the face of each content, one showing none
Queries == Hashes \cup {"noface"}

\* a term of the machine-readable zone of the document with content c (its
\* document number, its surname); the content name itself is a word of the
\* page's text outside the zone
MrzTerm(c) == CASE c = "a" -> "mrz_a" [] c = "b" -> "mrz_b" [] OTHER -> "none"

\* a word every page's text holds
CommonTerm == "the"

TextQueries == Hashes \cup {MrzTerm(c) : c \in Hashes} \cup {CommonTerm}

Scopes == {"all", "ocr", "mrz"}

StructuredFields == {"mrz_text", "document_number", "surname", "given_names"}

\* index_document_text lines 250-264: the terms a field of an entry holds;
\* the structured fields are written only when the run found an MRZ
FieldTerms(e, field) ==
    IF field = "full_text" THEN {e.full_text, CommonTerm}
    ELSE IF e.mrz THEN {MrzTerm(e.full_text)} ELSE {}

\* ScopeFields with the mrz scope reading full_text as well
ScopeFieldsMrzReadsText(search_in) ==
    IF search_in = "ocr" THEN {"full_text"}
    ELSE {"full_text"} \cup StructuredFields

\* search_documents_text lines 300-320: the fields each scope queries
ScopeFields(search_in) ==
    IF search_in = "mrz" THEN StructuredFields
    ELSE IF search_in = "ocr" THEN {"full_text"}
    ELSE {"full_text"} \cup StructuredFields

\* the orders in which the index may rank the entries S
Rankings(S) ==
    {s \in [1..Cardinality(S) -> S] : \A x \in S : \E k \in 1..Cardinality(S) : s[k] = x}

\* ElasticsearchService.search_documents_text: the hit lists the index may
\* return; the empty list when the client is missing or the call raises
search_documents_text(q, search_in, esOk) ==
    IF esOk
    THEN Rankings({e \in es_docs :
                     \E field \in ScopeFields(search_in) : q \in FieldTerms(e, field)})
    ELSE {<<>>}

\* ElasticsearchService.search_similar_faces: kNN hits at or above the
\* similarity threshold, in the order of the response
search_similar_faces(query_embedding, esOk) ==
    IF esOk
    THEN Rankings({e \in es_faces : e.embedding = query_embedding})
    ELSE {<<>>}

\* SearchService.search_by_text lines 168-188: the loop over the hits from
\* position k on
RECURSIVE search_by_text(_, _)
search_by_text(es_results, k) ==
    IF k > Len(es_results) THEN <<>>
    ELSE IF ~DocExists(es_results[k].document_id)
         THEN search_by_text(es_results, k + 1)
         ELSE <<[document_id |-> es_results[k].document_id, face_id |-> 0]>>
                  \o search_by_text(es_results, k + 1)

\* SearchService.search_by_face lines 70-113: the loop over the hits from
\* position k on
RECURSIVE search_by_face(_, _)
search_by_face(es_results, k) ==
    IF k > Len(es_results) THEN <<>>
    ELSE LET fs == {f \in faces : f.id = es_results[k].face_id}
         IN  IF fs = {}
             THEN search_by_face(es_results, k + 1)
             ELSE LET face == CHOOSE f \in fs : TRUE
                  IN  IF ~DocExists(face.document_id)
                      THEN search_by_face(es_results, k + 1)
                      ELSE <<[document_id |-> face.document_id, face_id |-> face.id]>>
                               \o search_by_face(es_results, k + 1)

\* the part of an index hit the service reads
HitOf(e, kind) ==
    [document_id |-> e.document_id,
     face_id |-> IF kind = "face" THEN e.face_id ELSE 0]

\* the position of the first hit without a Document, Len + 1 if none
FirstMissing(es_results) ==
    LET dead == {k \in 1..Len(es_results) : ~DocExists(es_results[k].document_id)}
    IN  IF dead = {} THEN Len(es_results) + 1
        ELSE CHOOSE k \in dead : \A j \in dead : k <= j

\* SearchText whose loop ends at the first hit without a Document
SearchTextStopsAtMissing(q, search_in, esOk) ==
    /\ \E es_results \in search_documents_text(q, search_in, esOk) :
         lastSearch' = [kind |-> "text", q |-> q, search_in |-> search_in,
                        query_embedding |-> "none", index_ok |-> esOk,
                        hits |-> [k \in 1..Len(es_results) |-> HitOf(es_results[k], "text")],
                        results |-> search_by_text(
                            SubSeq(es_results, 1, FirstMissing(es_results) - 1), 1),
                        error |-> "none", status_code |-> 200,
                        logged |-> 0]
    /\ lastGet' = NoGet
    /\ lastDetect' = NoDetect
    /\ lastMrz' = NoMrz
    /\ UNCHANGED <<engine, upload_dir, tables, index, queue, upl, idx, run, nruns>>

\* routes/search.py search_by_text
SearchText(q, search_in, esOk) ==
    /\ \E es_results \in search_documents_text(q, search_in, esOk) :
         lastSearch' = [kind |-> "text", q |-> q, search_in |-> search_in,
                        query_embedding |-> "none", index_ok |-> esOk,
                        hits |-> [k \in 1..Len(es_results) |-> HitOf(es_results[k], "text")],
                        results |-> search_by_text(es_results, 1),
                        error |-> "none", status_code |-> 200,
                        logged |-> 0]
    /\ lastGet' = NoGet
    /\ lastDetect' = NoDetect
    /\ lastMrz' = NoMrz
    /\ UNCHANGED <<engine, upload_dir, tables, index, queue, upl, idx, run, nruns>>

\* FaceRecognitionService.get_embedding_from_image
get_embedding_from_image(eng, q) ==
    IF q = "noface" \/ eng = "none" THEN "none" ELSE DetectedEmbedding(eng, q)

\* routes/search.py search_by_face: a result carrying the key "error" is
\* answered with HTTP 400
SearchFace(q, esOk) ==
    /\ LET query_embedding == get_embedding_from_image(engine.web, q)
       IN  IF query_embedding = "none"
           THEN lastSearch' = [kind |-> "face", q |-> q, search_in |-> "none",
                               query_embedding |-> "none", index_ok |-> FALSE,
                               hits |-> <<>>, results |-> <<>>,
                               error |-> "No face detected in query image",
                               status_code |-> 400,
                               logged |-> 1]
           ELSE \E es_results \in search_similar_faces(query_embedding, esOk) :
                  lastSearch' = [kind |-> "face", q |-> q, search_in |-> "none",
                                 query_embedding |-> query_embedding,
                                 index_ok |-> esOk,
                                 hits |-> [k \in 1..Len(es_results) |->
                                              HitOf(es_results[k], "face")],
                                 results |-> search_by_face(es_results, 1),
                                 error |-> "none", status_code |-> 200,
                                 logged |-> 1]
    /\ lastGet' = NoGet
    /\ lastDetect' = NoDetect
    /\ lastMrz' = NoMrz
    /\ UNCHANGED <<engine, upload_dir, tables, index, queue, upl, idx, run, nruns>>

\* ------------------------------------------------------------ properties
\* C1: an upload whose SHA-256 fingerprint equals that of an existing
\* Document returns that Document's id, creates no Document, dispatches no
\* processing run and leaves every record and index entry as it was.
C1_DuplicateUploadResolves ==
    [][\A u \in Uploaders :
         (upl[u].pc = "idle" /\ upl'[u].pc # "idle" /\ DocsByHash(upl'[u].hash) # {})
             => /\ upl'[u].pc = "done"
                /\ upl'[u].dup
                /\ upl'[u].doc \in {d.id : d \in DocsByHash(upl'[u].hash)}
                /\ UNCHANGED <<tables, index, queue>>]_vars

\* a duplicate of a Document that was processed to completion was resolved
C1_Witness ==
    \E u \in Uploaders :
        /\ upl[u].pc = "done"
        /\ upl[u].dup
        /\ \E d \in documents : /\ d.id = upl[u].doc
                                /\ d.file_hash = upl[u].hash
                                /\ d.status = "completed"

\* C2: concurrent uploads (or an upload and a directory scan) of the same
\* bytes never end in an error, create one Document and all resolve to it.
C2_ConcurrentUploadsResolve ==
    /\ \A u \in Uploaders : upl[u].pc # "integrity_error"
    /\ idx.pc # "integrity_error"
    /\ \A d1, d2 \in documents : d1.file_hash = d2.file_hash => d1.id = d2.id
    /\ \A u \in Uploaders :
          upl[u].pc = "done" => upl[u].doc \in {d.id : d \in DocsByHash(upl[u].hash)}

\* a Document in the state a run of the pipeline leaves it in
PipelineOutcome(d) ==
    \/ /\ d.status = "completed"
       /\ \E r \in ocr_results : r.document_id = d.id
    \/ /\ d.status = "requires_review"
       /\ Cardinality({r \in failures : /\ r.document_id = d.id
                                        /\ r.failure_type = "ocr_failed"})
             >= MAX_RETRIES_OCR
    \/ /\ d.status = "failed"
       /\ \E r \in failures : /\ r.document_id = d.id
                              /\ r.failure_type = "processing_error"

\* C5: when the dispatch to the task queue fails, the synchronous fallback
\* leaves the Document in a terminal state of the pipeline with the records
\* a queued run would have produced.
C5_SyncFallbackRunsPipeline ==
    \A u \in Uploaders :
        (upl[u].pc = "done" /\ upl[u].mode = "sync")
            => \A d \in DocsById(upl[u].doc) : PipelineOutcome(d)

\* the worker has returned from a run that found its Document
RunEnded == run.pc = "done" /\ run.content # "none"

\* every extraction attempt of the run failed
AllAttemptsFailed == run.fails = MAX_RETRIES_OCR

\* C3: a run in which every extraction attempt 1..MAX_RETRIES_OCR fails
\* ends with the Document in requires_review, never in completed.
C3_AllFailedEndsInReview ==
    (RunEnded /\ AllAttemptsFailed /\ DocExists(run.doc))
        => StatusOf(run.doc) = "requires_review"

\* C4: once a run has set its Document to completed, requires_review or
\* failed, the same run sets no other status.
C4_OneTerminalOutcome ==
    [][(run.pc \notin {"idle", "done"} /\ run.term \in Terminal)
          => run'.term = run.term]_vars

\* C6: the attempt numbers of a Document's OCRResult rows are 1..k, one row
\* each, with k <= MAX_RETRIES_OCR.
C6_AttemptsContiguous ==
    \A d \in documents :
        LET rows == {r \in ocr_results : r.document_id = d.id}
            k == Cardinality(rows)
        IN  /\ k <= MAX_RETRIES_OCR
            /\ {r.attempt_number : r \in rows} = 1..k

C8_ReprocessingReplaces ==
    (RunEnded /\ run.exc = "none")
        => /\ {f.id : f \in {g \in faces : g.document_id = run.doc}} = run.made
           /\ {e.face_id : e \in {g \in es_faces : g.document_id = run.doc}} = run.made

\* C9: delete_document leaves no record of the Document in any table and
\* no entry of it or of its faces in the index.
C9_DeleteRemovesEverything ==
    [][\A i \in 1..MaxDocId :
         (DocExists(i) /\ ~(\E d \in documents' : d.id = i))
            => /\ \A r \in ocr_results' : r.document_id # i
               /\ \A r \in mrz_data' : r.document_id # i
               /\ \A r \in faces' : r.document_id # i
               /\ \A r \in failures' : r.document_id # i
               /\ \A e \in es_docs' : e.document_id # i
               /\ \A e \in es_faces' :
                     /\ e.document_id # i
                     /\ \A f \in faces : f.document_id = i => e.face_id # f.id]_vars

\* C10: a search returns no result that stems from a deleted Document:
\* every result is a live Document holding the content the query matched.
C10_SearchNeverReturnsDeleted ==
    \A k \in 1..Len(lastSearch.results) :
        \E d \in documents : /\ d.id = lastSearch.results[k].document_id
                              /\ d.file_hash = lastSearch.q

\* C11: every Face row whose embedding_id is set has an entry in the face
\* index under that identifier; a face whose index write failed is not left
\* with an embedding_id.
C11_EmbeddingIdHasEntry ==
    \A f \in faces :
        f.embedding_id # 0 => \E e \in es_faces : e.face_id = f.embedding_id

\* C12: a face search whose query image shows no detectable face is
\* answered as a success with results_count 0, an empty result list and the
\* no-face reason, not as an error.
C12_NoFaceIsEmptySuccess ==
    (lastSearch.kind = "face" /\ lastSearch.q = "noface")
        => /\ lastSearch.status_code = 200
           /\ lastSearch.results = <<>>
           /\ lastSearch.error = "No face detected in query image"

\* the canonical records a hit of the last search names exist
HitLive(h) ==
    IF lastSearch.kind = "text"
    THEN DocExists(h.document_id)
    ELSE \E f \in faces : f.id = h.face_id /\ DocExists(f.document_id)

\* the result a live hit of the last search is shown as
HitResult(h) ==
    IF lastSearch.kind = "text"
    THEN [document_id |-> h.document_id, face_id |-> 0]
    ELSE [document_id |-> (CHOOSE f \in faces : f.id = h.face_id).document_id,
          face_id |-> h.face_id]

C14_SentinelNeverMatchable ==
    /\ \A e \in es_faces : e.embedding # Sentinel
    /\ lastSearch.query_embedding # Sentinel

\* C15: for a term that occurs only in full_text, a text search of scope
\* mrz has no hit, and a search of scope all or ocr that the index answers
\* hits every entry whose full_text holds the term.
C15_ScopeSelectsFields ==
    (lastSearch.kind = "text" /\ lastSearch.q \in Hashes \cup {CommonTerm})
        => /\ lastSearch.search_in = "mrz" => lastSearch.hits = <<>>
           /\ (lastSearch.search_in \in {"all", "ocr"} /\ lastSearch.index_ok)
                 => {lastSearch.hits[k].document_id : k \in 1..Len(lastSearch.hits)}
                      = {e.document_id : e \in {x \in es_docs : x.full_text = lastSearch.q
                                                  \/ lastSearch.q = CommonTerm}}

\* a search of scope mrz for the text of an indexed document that has
\* structured fields found nothing
C15_Witness ==
    /\ lastSearch.kind = "text"
    /\ lastSearch.search_in = "mrz"
    /\ lastSearch.index_ok
    /\ lastSearch.hits = <<>>
    /\ \E e \in es_docs : e.full_text = lastSearch.q /\ e.mrz

\* C16: get_document returns the Document's current status and, when that
\* status is requires_review, the reasons of its ProcessingFailure rows, one
\* per failed attempt, not an empty list.
C16_StatusPollCarriesFailures ==
    lastGet.status_code = 200
        => /\ lastGet.status = StatusOf(lastGet.id)
           /\ lastGet.status = "requires_review"
                 => {lastGet.processing_failures[k].attempt_number :
                        k \in 1..Len(lastGet.processing_failures)}
                      = {r.attempt_number :
                            r \in {x \in failures : x.document_id = lastGet.id}}

\* C17: a run that ends on an orchestrator-level failure (an exception
\* raised after the start, or no Document under the id at the start) leaves
\* a ProcessingFailure of type processing_error for the id, and the
\* Document, when it exists, in failed.
C17_OrchestratorFailureRecorded ==
    [][(run' # run /\ run'.pc = "done" /\ (run'.exc # "none" \/ run'.content = "none"))
          => /\ \E r \in failures' : /\ r.document_id = run'.doc
                                     /\ r.failure_type = "processing_error"
             /\ \A d \in documents' : d.id = run'.doc => d.status = "failed"]_vars

\* a message for Document i is in the broker
Redeliverable(i) ==
    \E k \in 1..Len(queue) : \E j \in 1..Len(queue[k].ids) : queue[k].ids[j] = i

\* C18: a message is acknowledged only when its Document has reached a
\* terminal status: a Document in processing that no worker is running on
\* still has its message in the broker, also after a worker crash.
C18_AckOnlyAfterTerminal ==
    \A d \in documents :
        d.status = "processing"
            => \/ run.pc \notin {"idle", "done"} /\ run.doc = d.id
               \/ Redeliverable(d.id)

C20_IndexFailureIsHarmless ==
    /\ run.ixfail > 0 => run.exc = "none" /\ run.pc # "except"
    /\ run.ixfail <= 1 + Cardinality(run.made)
    /\ RunEnded
          => /\ StatusOf(run.doc) = IF run.success THEN "completed"
                                    ELSE "requires_review"
             /\ run.success
                   => \E r \in ocr_results : /\ r.document_id = run.doc
                                             /\ r.attempt_number = run.attempt
             /\ run.mrz
                   => /\ \E r \in mrz_data : r.document_id = run.doc
                      /\ (TheDoc(run.doc)).has_mrz
             /\ run.todo = <<>>
             /\ \A i \in run.made : \E f \in faces : f.id = i /\ f.document_id = run.doc

\* a run whose text-index write and face-index write both failed ended
\* completed with its OCRResult, MRZData and Face rows and no index entry
C20_Witness ==
    /\ RunEnded
    /\ run.ixfail = 2
    /\ run.mrz
    /\ run.made # {}
    /\ StatusOf(run.doc) = "completed"
    /\ \E r \in ocr_results : r.document_id = run.doc
    /\ \E r \in mrz_data : r.document_id = run.doc
    /\ \E f \in faces : f.document_id = run.doc
    /\ \A e \in es_docs : e.document_id # run.doc
    /\ \A e \in es_faces : e.document_id # run.doc

\* C21: every Document has at most one MRZData row, also after it has been
\* processed more than once.
C21_AtMostOneMrzRow ==
    \A d \in documents :
        Cardinality({r \in mrz_data : r.document_id = d.id}) <= 1

\* C22: every face detect_faces returns has a confidence of at least the
\* min_confidence of the call, with either engine.
C22_ConfidenceAtLeastMin ==
    \A k \in 1..Len(lastDetect.faces) :
        lastDetect.faces[k].confidence >= lastDetect.min_confidence

\* C23: once extraction has succeeded and the text recognized by the
\* successful attempt holds a checksum-valid zone, a StructuredFields record of
\* the Document is persisted and the Document's flag is set, for image and
\* PDF Documents alike and whatever a further extraction call does.
C23_ZoneOfSuccessfulAttemptPersisted ==
    (run.pc = "detect" /\ run.success /\ run.zone)
        => /\ \E r \in mrz_data : r.document_id = run.doc
           /\ \E d \in documents : d.id = run.doc /\ d.has_mrz

\* the windows of a text that carry a width signature and pass the checksum
\* validation of that format
ValidWindows(lines, valid) ==
    {w \in (1..Len(lines)) \X {"TD3", "TD1", "TD2"} :
        /\ w[1] \in valid
        /\ \/ w[2] = "TD3" /\ TD3At(lines, w[1])
           \/ w[2] = "TD1" /\ TD1At(lines, w[1])
           \/ w[2] = "TD2" /\ TD2At(lines, w[1])}

\* C24: extract_mrz_zone returns fields only for a window of consecutive
\* lines with one of the three width signatures that passes the checksum
\* validation of its format, so every result has checksum_valid true; the
\* window returned is the first such window in scan order, and the result is
\* None exactly when no window validates.
C24_FirstValidWindow ==
    lastMrz.called
        => LET W == ValidWindows(lastMrz.lines, lastMrz.valid)
               res == lastMrz.result
           IN  /\ res = NoZone <=> W = {}
               /\ res # NoZone
                    => /\ <<res.start, res.document_type>> \in W
                       /\ res.checksum_valid
                       /\ \A w \in W : w[1] >= res.start

\* a scan passed over a window with a width signature that failed its
\* validation and returned a later window that validates
C24_Witness ==
    /\ lastMrz.result # NoZone
    /\ lastMrz.result.start > 1
    /\ \E i \in 1..(lastMrz.result.start - 1) :
          /\ i \notin lastMrz.valid
          /\ \/ TD3At(lastMrz.lines, i)
             \/ TD1At(lastMrz.lines, i)
             \/ TD2At(lastMrz.lines, i)

\* C25: every search request, face or text, appends exactly one SearchLog
\* row and leaves the Document, OCRResult, MRZData, Face and
\* ProcessingFailure rows as they were.
C25_SearchLogsOnce ==
    [][lastSearch'.kind # "none"
          => lastSearch'.logged = 1 /\ UNCHANGED tables]_vars

\* C26: when a run that started on an existing Document has returned, the
\* Document is in a terminal status; no return path, the exception handler
\* whose own commit fails included, leaves it in status processing.
C26_ReturnedRunLeavesTerminal ==
    (RunEnded /\ DocExists(run.doc)) => StatusOf(run.doc) \in Terminal

\* C27: a Document created pending by upload_document or index_directory is
\* dispatched, also when the task queue is unreachable at dispatch time:
\* while it is pending, a message of the queue names it or a run is working
\* on it, so that it leaves pending.
C27_PendingIsDispatched ==
    \A d \in documents :
        d.status = "pending"
            => \/ \E k \in 1..Len(queue) :
                    \E j \in 1..Len(queue[k].ids) : queue[k].ids[j] = d.id
               \/ run.doc = d.id /\ run.pc \notin {"idle", "done"}

\* C28: an upload that is answered with the existing Document as a
\* duplicate leaves the file at that Document's file_path as it was, also
\* when the duplicate has the same sanitized filename and arrives within
\* the same second.
C28_DuplicateKeepsStoredFile ==
    [][\A u \in Uploaders :
          (upl[u].pc = "idle" /\ upl'[u].pc = "done" /\ upl'[u].dup)
              => \A d \in DocsById(upl'[u].doc) :
                    d.file_path \in Paths
                        => /\ upload_dir[d.file_path] # NoFile
                           /\ upload_dir'[d.file_path] = upload_dir[d.file_path]]_vars

\* the Documents named by the rows and index entries of S
DocumentsOf(S) == {r.document_id : r \in S}

\* C29: in any interleaving of delete_document with a run in flight, every
\* OCRResult, MRZData, Face and ProcessingFailure row and every index entry
\* a step writes refers to a Document that exists after the step: a run
\* writes nothing for a Document deleted during the run.
C29_WritesOnlyForLiveDocument ==
    [][\A i \in DocumentsOf(ocr_results' \ ocr_results)
                \cup DocumentsOf(mrz_data' \ mrz_data)
                \cup DocumentsOf(faces' \ faces)
                \cup DocumentsOf(failures' \ failures)
                \cup DocumentsOf(es_faces' \ es_faces)
                \cup DocumentsOf(es_docs' \ es_docs) :
          \E d \in documents' : d.id = i]_vars

\* C30: the Face rows one run makes for a Document have pairwise distinct
\* face_image_path values, also for a PDF whose faces on different pages
\* carry the same face_index.
C30_CropPathsDistinct ==
    \A f \in faces : \A g \in faces :
        (f.id \in run.made /\ g.id \in run.made /\ f.id # g.id
            /\ f.document_id = g.document_id)
                => f.face_image_path # g.face_image_path

\* ------------------------------------------------------- specifications
\* Next: every handler and the worker, every fault
Next ==
    \/ \E u \in Uploaders, c \in Hashes, p \in Paths : UploadCheck(u, c, p)
    \/ \E u \in Uploaders : UploadInsert(u)
    \/ \E files \in Listings : IdxScan(files)
    \/ IdxFlush
    \/ \E t \in ReindexTypes : Reindex(t)
    \/ \E i \in 1..MaxDocId, faceOk \in SUBSET PageFaceIds, textOk \in BOOLEAN :
          DeleteDocument(i, faceOk, textOk)
    \/ RunBatch
    \/ \E commitOk \in BOOLEAN : RunStart(commitOk)
    \/ \E ok \in BOOLEAN, commitOk \in BOOLEAN : RunOcr(ok, commitOk)
    \/ \E zone \in BOOLEAN, again \in BOOLEAN, esOk \in BOOLEAN :
           RunMrzIndex(zone, again, esOk)
    \/ \E commitOk \in BOOLEAN : RunAfterLoop(commitOk)
    \/ \E counts \in PageFaces, convertOk \in BOOLEAN : RunDetect(counts, convertOk)
    \/ \E esOk \in BOOLEAN, commitOk \in BOOLEAN : RunFace(esOk, commitOk)
    \/ \E commitOk \in BOOLEAN : RunFinal(commitOk)
    \/ \E handlerOk \in BOOLEAN : RunHandler(handlerOk)
    \/ \E q \in TextQueries, search_in \in Scopes, esOk \in BOOLEAN :
          SearchText(q, search_in, esOk)
    \/ \E q \in Queries, esOk \in BOOLEAN : SearchFace(q, esOk)
    \/ \E i \in 1..MaxDocId : GetDocument(i)
    \/ WorkerCrash
    \/ \E scores \in Images, min_confidence \in Confidences :
          DetectFaces(scores, min_confidence)
    \/ ExtractMrzZone

Spec == Init /\ [][Next]_vars

\* NextIngest: concurrent uploads and a directory scan, and the worker
\* with a healthy database and index on documents without faces
NextIngest ==
    \/ \E u \in Uploaders, c \in Hashes : UploadCheck(u, c, OwnPath(u))
    \/ \E u \in Uploaders : UploadInsert(u)
    \/ \E files \in Listings : IdxScan(files)
    \/ IdxFlush
    \/ RunBatch
    \/ RunStart(TRUE)
    \/ \E ok \in BOOLEAN : RunOcr(ok, TRUE)
    \/ RunMrzIndex(FALSE, TRUE, TRUE)
    \/ RunAfterLoop(TRUE)
    \/ RunDetect(<<0>>, TRUE)
    \/ RunFinal(TRUE)

SpecIngest == Init /\ [][NextIngest]_vars

\* NextRun: one uploader, reprocessing, and the worker under every fault
NextRun ==
    \/ \E c \in Hashes : UploadCheck("u1", c, OwnPath("u1"))
    \/ UploadInsert("u1")
    \/ Reindex("all")
    \/ RunBatch
    \/ \E commitOk \in BOOLEAN : RunStart(commitOk)
    \/ \E ok \in BOOLEAN, commitOk \in BOOLEAN : RunOcr(ok, commitOk)
    \/ \E zone \in BOOLEAN : RunMrzIndex(zone, TRUE, TRUE)
    \/ \E commitOk \in BOOLEAN : RunAfterLoop(commitOk)
    \/ \E n \in 0..MaxFacesPerRun, convertOk \in BOOLEAN : RunDetect(<<n>>, convertOk)
    \/ \E commitOk \in BOOLEAN : RunFace(TRUE, commitOk)
    \/ \E commitOk \in BOOLEAN : RunFinal(commitOk)
    \/ \E handlerOk \in BOOLEAN : RunHandler(handlerOk)

SpecRun == Init /\ [][NextRun]_vars

\* NextDelete: uploads, the worker with an unreliable index, deletion with
\* failing index deletes, and both searches
NextDelete ==
    \/ \E u \in Uploaders, c \in Hashes : UploadCheck(u, c, OwnPath(u))
    \/ \E u \in Uploaders : UploadInsert(u)
    \/ \E i \in 1..MaxDocId, faceOk \in SUBSET FaceIds, textOk \in BOOLEAN :
          DeleteDocument(i, faceOk, textOk)
    \/ RunStart(TRUE)
    \/ RunOcr(TRUE, TRUE)
    \/ \E zone \in BOOLEAN, esOk \in BOOLEAN : RunMrzIndex(zone, TRUE, esOk)
    \/ RunAfterLoop(TRUE)
    \/ \E n \in 0..MaxFacesPerRun : RunDetect(<<n>>, TRUE)
    \/ \E esOk \in BOOLEAN : RunFace(esOk, TRUE)
    \/ RunFinal(TRUE)
    \/ RunHandler(TRUE)
    \/ \E q \in Hashes : SearchText(q, "all", TRUE)
    \/ \E q \in Hashes : SearchFace(q, TRUE)

SpecDelete == Init /\ [][NextDelete]_vars

\* NextSearch: an upload of each content, deletion with failing index
\* deletes, the worker with a healthy database and index, and both searches
NextSearch ==
    \/ UploadCheck("u1", "a", OwnPath("u1"))
    \/ UploadCheck("u2", "b", OwnPath("u2"))
    \/ \E u \in Uploaders : UploadInsert(u)
    \/ \E i \in 1..MaxDocId, faceOk \in SUBSET FaceIds, textOk \in BOOLEAN :
          DeleteDocument(i, faceOk, textOk)
    \/ RunStart(TRUE)
    \/ RunOcr(TRUE, TRUE)
    \/ \E zone \in BOOLEAN : RunMrzIndex(zone, TRUE, TRUE)
    \/ RunAfterLoop(TRUE)
    \/ \E n \in 0..MaxFacesPerRun : RunDetect(<<n>>, TRUE)
    \/ RunFace(TRUE, TRUE)
    \/ RunFinal(TRUE)
    \/ RunHandler(TRUE)
    \/ \E q \in {"a", MrzTerm("a"), CommonTerm}, search_in \in Scopes, esOk \in BOOLEAN :
          SearchText(q, search_in, esOk)
    \/ \E q \in {"a", "noface"}, esOk \in BOOLEAN : SearchFace(q, esOk)

SpecSearch == Init /\ [][NextSearch]_vars

\* NextFallback: one upload, the worker and the face search, under every
\* combination of detectors the two processes may have loaded
NextFallback ==
    \/ \E c \in Hashes : UploadCheck("u1", c, OwnPath("u1"))
    \/ UploadInsert("u1")
    \/ RunStart(TRUE)
    \/ RunOcr(TRUE, TRUE)
    \/ RunMrzIndex(FALSE, TRUE, TRUE)
    \/ \E n \in 0..MaxFacesPerRun : RunDetect(<<n>>, TRUE)
    \/ \E esOk \in BOOLEAN : RunFace(esOk, TRUE)
    \/ RunFinal(TRUE)
    \/ \E q \in Queries, esOk \in BOOLEAN : SearchFace(q, esOk)

SpecFallback == InitEngines /\ [][NextFallback]_vars

\* NextPoll: one uploader, the worker with failing extraction attempts on a
\* healthy database, and the status poll
NextPoll ==
    \/ \E c \in Hashes : UploadCheck("u1", c, OwnPath("u1"))
    \/ UploadInsert("u1")
    \/ RunStart(TRUE)
    \/ \E ok \in BOOLEAN : RunOcr(ok, TRUE)
    \/ \E zone \in BOOLEAN : RunMrzIndex(zone, TRUE, TRUE)
    \/ RunAfterLoop(TRUE)
    \/ \E n \in 0..MaxFacesPerRun : RunDetect(<<n>>, TRUE)
    \/ RunFace(TRUE, TRUE)
    \/ RunFinal(TRUE)
    \/ \E i \in 1..MaxDocId : GetDocument(i)

SpecPoll == Init /\ [][NextPoll]_vars

\* NextCrash: uploads and the worker on a healthy database and index, with
\* the worker process dying at any point of a run
NextCrash ==
    \/ \E u \in Uploaders, c \in Hashes : UploadCheck(u, c, OwnPath(u))
    \/ \E u \in Uploaders : UploadInsert(u)
    \/ RunStart(TRUE)
    \/ \E ok \in BOOLEAN : RunOcr(ok, TRUE)
    \/ \E zone \in BOOLEAN : RunMrzIndex(zone, TRUE, TRUE)
    \/ RunAfterLoop(TRUE)
    \/ \E n \in 0..MaxFacesPerRun : RunDetect(<<n>>, TRUE)
    \/ RunFace(TRUE, TRUE)
    \/ RunFinal(TRUE)
    \/ WorkerCrash

SpecCrash == Init /\ [][NextCrash]_vars

\* NextIndex: uploads and the worker on a healthy database with an index
\* whose writes may fail
NextIndex ==
    \/ \E u \in Uploaders, c \in Hashes : UploadCheck(u, c, OwnPath(u))
    \/ \E u \in Uploaders : UploadInsert(u)
    \/ RunStart(TRUE)
    \/ \E ok \in BOOLEAN : RunOcr(ok, TRUE)
    \/ \E zone \in BOOLEAN, again \in BOOLEAN, esOk \in BOOLEAN :
           RunMrzIndex(zone, again, esOk)
    \/ RunAfterLoop(TRUE)
    \/ \E n \in 0..MaxFacesPerRun : RunDetect(<<n>>, TRUE)
    \/ \E esOk \in BOOLEAN : RunFace(esOk, TRUE)
    \/ RunFinal(TRUE)

SpecIndex == Init /\ [][NextIndex]_vars

\* NextDetect: detect_faces on every image at every min_confidence, under
\* every detector the worker may have loaded
NextDetect ==
    \E scores \in Images, min_confidence \in Confidences :
        DetectFaces(scores, min_confidence)

SpecDetect == InitEngines /\ [][NextDetect]_vars

\* SpecMrz: extract_mrz_zone applied to every text and every checker verdict
NextMrz == ExtractMrzZone

SpecMrz == InitMrz /\ [][NextMrz]_vars

\* SpecUpload: uploads whose paths may coincide
NextUpload ==
    \/ \E u \in Uploaders, c \in Hashes, p \in Paths : UploadCheck(u, c, p)
    \/ \E u \in Uploaders : UploadInsert(u)

SpecUpload == Init /\ [][NextUpload]_vars

\* SpecCrop: runs on documents of one or several page images
NextCrop ==
    \/ \E c \in Hashes : UploadCheck("u1", c, OwnPath("u1"))
    \/ UploadInsert("u1")
    \/ Reindex("all")
    \/ RunBatch
    \/ RunStart(TRUE)
    \/ \E ok \in BOOLEAN : RunOcr(ok, TRUE)
    \/ RunMrzIndex(FALSE, TRUE, TRUE)
    \/ RunAfterLoop(TRUE)
    \/ \E counts \in PageFaces : RunDetect(counts, TRUE)
    \/ RunFace(TRUE, TRUE)
    \/ RunFinal(TRUE)

SpecCrop == Init /\ [][NextCrop]_vars

====
